---- MODULE Spec2Model ----
(***************************************************************************)
(* Points dashboard (src/main.py): HTTP Basic authentication against the   *)
(* USERS table, the persons table behind the async session, and the four   *)
(* endpoints GET /, GET /persons, POST /add_person, POST /update_points.   *)
(* Every request runs in its own context; a handler gives up control at    *)
(* each database round trip, so the steps of different requests            *)
(* interleave.                                                             *)
(***************************************************************************)
EXTENDS Integers, Sequences, FiniteSets, TLC

\* ------------------------------------------------------------- bounds ----
NumReq == 2        \* request contexts that can be in flight together
MaxRows == 2       \* rows the persons table may grow to
MaxPoints == 1     \* points values supplied in bodies are 0..MaxPoints

\* ------------------------------------------------------------- values ----
None == "None"     \* Python None: a JSON null, or a key the body lacks
Names == {"alice", "bob"}
Reqs == 1..NumReq

USERS ==
    ("admin" :> [password |-> "supersecret", role |-> "admin"]) @@
    ("john"  :> [password |-> "readonly123", role |-> "viewer"]) @@
    ("sarah" :> [password |-> "readpass",    role |-> "viewer"])

\* What the clients send.  Requests: an admin, a viewer and a client with a
\* wrong password; any name or none; any points.
Requests ==
    [creds  |-> {<<"admin", "supersecret">>, <<"john", "readonly123">>,
                 <<"sarah", "wrong">>},
     names  |-> Names \cup {None},
     points |-> 0..MaxPoints]

\* Credentials: every user name, stored or not, with every password, stored
\* or not; one name and one points value.
Usernames == DOMAIN USERS \cup {"mallory"}
Passwords == {USERS[u].password : u \in DOMAIN USERS} \cup {"wrong"}
Credentials ==
    [creds  |-> Usernames \X Passwords,
     names  |-> {"alice"},
     points |-> {MaxPoints}]

VARIABLES persons, req
vars == <<persons, req>>

\* ---------------------------------------------------------- the table ----
\* persons is the table in primary-key order: the row with id i is
\* persons[i] (the serial primary key hands out the ids, no row is ever
\* deleted).  name and points are the columns; crole and prole are history:
\* the role of the identity whose request inserted the row, and of the one
\* whose request last wrote its points.
Person(name, points, role) ==
    [name |-> name, points |-> points, crole |-> role, prole |-> role]

NoPerson == [id |-> 0, name |-> None, points |-> 0]

\* A request context.  username..role: the credentials and the identity;
\* name, points: the body; person: the row the session loaded; status, challenge,
\* resp, html: the response.  History: absent (the name was in no row when
\* the body was read), beaten (the context whose insert of the same name
\* committed while this request was waiting to commit, 0: none), since (the
\* contexts whose update of the loaded row committed after it was loaded).
NoReq ==
    [pc |-> "idle", endpoint |-> "none", username |-> None, password |-> None,
     role |-> "none", name |-> None, points |-> 0, person |-> NoPerson,
     status |-> 0, challenge |-> "none", resp |-> <<>>, html |-> "none",
     absent |-> FALSE, beaten |-> 0, since |-> {}]

Json(p) == [name |-> p.name, points |-> p.points]

\* ------------------------------------------------------ authentication ----
compare_digest(a, b) == a = b

get_current_user_any_password(username, password) ==
    IF username \notin DOMAIN USERS
    THEN [status |-> 401, challenge |-> "Basic", role |-> "none"]
    ELSE [status |-> 0, challenge |-> "none", role |-> USERS[username].role]

\* The identity, or the 401 with its WWW-Authenticate header.
get_current_user(username, password) ==
    IF username \notin DOMAIN USERS
       \/ ~compare_digest(USERS[username].password, password)
    THEN [status |-> 401, challenge |-> "Basic", role |-> "none"]
    ELSE [status |-> 0, challenge |-> "none", role |-> USERS[username].role]

\* A request for endpoint e arrives in a free context and its dependency
\* get_current_user has run: the context as the handler finds it, or as the
\* 401 leaves it.
Arrived(e, c) ==
    LET user == get_current_user(c[1], c[2])
    IN [NoReq EXCEPT !.pc = IF user.status = 401 THEN "done" ELSE "handler",
                     !.endpoint = e,
                     !.username = c[1],
                     !.password = c[2],
                     !.role = user.role,
                     !.status = user.status,
                     !.challenge = user.challenge]

Free(r) == req[r].pc \in {"idle", "done"}

Init ==
    /\ persons = <<>>
    /\ req = [r \in Reqs |-> NoReq]

\* ----------------------------------------------------------- GET / ----
\* The page carries the admin forms and their script exactly when the
\* caller's role is admin.
Dashboard(r, in) ==
    /\ Free(r)
    /\ \E c \in in.creds :
         LET q == Arrived("dashboard", c)
             is_admin == q.role = "admin"
         IN req' = [req EXCEPT ![r] =
                IF q.pc = "done" THEN q
                ELSE [q EXCEPT !.pc = "done",
                               !.status = 200,
                               !.html = IF is_admin THEN "table+admin_forms"
                                        ELSE "table"]]
    /\ UNCHANGED persons

\* ---------------------------------------------------- GET /persons ----
\* order_by(Person.points.asc()): perm lists the row ids in the order the
\* query returns them.  The order among rows with equal points is the
\* database's choice.
order_by_nothing(perm, table) == TRUE

order_by_points_asc(perm, table) ==
    \A i, j \in DOMAIN perm :
        i < j => table[perm[i]].points <= table[perm[j]].points

Orderings(table) ==
    {perm \in [1..Len(table) -> 1..Len(table)] :
        /\ \A i, j \in 1..Len(table) : i # j => perm[i] # perm[j]
        /\ order_by_points_asc(perm, table)}

GetPersons(r, in) ==
    /\ Free(r)
    /\ \E c \in in.creds :
         LET q == Arrived("get_persons", c)
         IN IF q.pc = "done"
            THEN req' = [req EXCEPT ![r] = q]
            ELSE \E perm \in Orderings(persons) :
                   req' = [req EXCEPT ![r] =
                       [q EXCEPT !.pc = "done",
                                 !.status = 200,
                                 !.resp = [i \in 1..Len(persons) |->
                                              Json(persons[perm[i]])]]]
    /\ UNCHANGED persons

\* ------------------------------------------------ POST /add_person ----
add_person_forbidden_nobody(role) == FALSE

add_person_forbidden(role) == role # "admin"

\* Role check, then await request.json().
AddPerson(r, in) ==
    /\ Free(r)
    /\ \E c \in in.creds, name \in in.names :
         LET q == Arrived("add_person", c)
         IN req' = [req EXCEPT ![r] =
                IF q.pc = "done" THEN q
                ELSE IF add_person_forbidden(q.role)
                THEN [q EXCEPT !.pc = "done", !.status = 403, !.name = name]
                ELSE [q EXCEPT !.pc = "commit",
                               !.name = name,
                               !.absent = \A i \in 1..Len(persons) :
                                              persons[i].name # name]]
    /\ UNCHANGED persons

\* name = Column(String, unique=True): the insert fails when a row with the
\* same name is stored.  The column is nullable, and NULLs never collide.
unique_violation_never(table, name) == FALSE

unique_violation(table, name) ==
    /\ name # None
    /\ \E i \in 1..Len(table) : table[i].name = name

new_person_one_point(name, role) == Person(name, 1, role)

new_person(name, role) == Person(name, 0, role)

\* session.add(new_person); await session.commit(): the insert and its
\* commit are one atomic step of the database.  A failed commit leaves the
\* handler in its except branch.
AddPersonCommit(r) ==
    /\ req[r].pc = "commit"
    /\ req[r].endpoint = "add_person"
    /\ IF unique_violation(persons, req[r].name)
       THEN /\ req' = [req EXCEPT ![r].pc = "rollback"]
            /\ UNCHANGED persons
       ELSE /\ Len(persons) < MaxRows
            /\ LET p == new_person(req[r].name, req[r].role)
               IN /\ persons' = Append(persons, p)
                  /\ req' = [s \in Reqs |->
                       IF s = r
                       THEN [req[r] EXCEPT !.pc = "done",
                                           !.status = 200,
                                           !.resp = <<Json(p)>>]
                       ELSE IF /\ req[s].pc = "commit"
                               /\ req[s].endpoint = "add_person"
                               /\ req[s].name = req[r].name
                               /\ req[s].beaten = 0
                            THEN [req[s] EXCEPT !.beaten = r]
                            ELSE req[s]]

\* except: await session.rollback(); raise HTTPException(400)
AddPersonRollback(r) ==
    /\ req[r].pc = "rollback"
    /\ req' = [req EXCEPT ![r].pc = "done", ![r].status = 400]
    /\ UNCHANGED persons

\* --------------------------------------------- POST /update_points ----
update_points_forbidden(role) == role # "admin"

\* Role check, then await request.json().
UpdatePoints(r, in) ==
    /\ Free(r)
    /\ \E c \in in.creds, name \in in.names, points \in in.points :
         LET q == Arrived("update_points", c)
         IN req' = [req EXCEPT ![r] =
                IF q.pc = "done" THEN q
                ELSE IF update_points_forbidden(q.role)
                THEN [q EXCEPT !.pc = "done", !.status = 403,
                               !.name = name, !.points = points]
                ELSE [q EXCEPT !.pc = "select",
                               !.name = name, !.points = points]]
    /\ UNCHANGED persons

\* select(Person).where(Person.name == name): the ids of the matching rows
\* (a comparison with None selects the rows whose name is NULL).
where_name_or_first(table, name) ==
    IF \E i \in 1..Len(table) : table[i].name = name
    THEN {i \in 1..Len(table) : table[i].name = name}
    ELSE {i \in 1..Len(table) : i = 1}

where_name(table, name) == {i \in 1..Len(table) : table[i].name = name}

\* await session.execute(select ...); result.scalar_one_or_none(): no row is
\* the 404; one row is loaded into the session with the values it has now;
\* more than one row raises MultipleResultsFound, which nothing catches.
UpdatePointsSelect(r) ==
    /\ req[r].pc = "select"
    /\ LET found == where_name(persons, req[r].name)
       IN IF found = {}
          THEN req' = [req EXCEPT ![r].pc = "done", ![r].status = 404]
          ELSE IF Cardinality(found) > 1
          THEN req' = [req EXCEPT ![r].pc = "done", ![r].status = 500]
          ELSE LET id == CHOOSE i \in found : TRUE
               IN req' = [req EXCEPT ![r].pc = "commit",
                                     ![r].person =
                                         [id |-> id,
                                          name |-> persons[id].name,
                                          points |-> persons[id].points]]
    /\ UNCHANGED persons

\* person.points = points; await session.commit().  The session flushes the
\* attributes whose value differs from the value it loaded: the commit sends
\* UPDATE persons SET points = ... WHERE id = ... when the supplied points
\* differ from the loaded points, and no statement when they are equal.
flush_net_change(loaded, points) == loaded.points # points

UpdatePointsCommit(r) ==
    /\ req[r].pc = "commit"
    /\ req[r].endpoint = "update_points"
    /\ LET id == req[r].person.id
           points == req[r].points
           write == flush_net_change(req[r].person, points)
       IN /\ persons' =
               [persons EXCEPT
                  ![id].points = IF write THEN points ELSE @,
                  ![id].prole = IF write THEN req[r].role ELSE @]
          /\ req' = [s \in Reqs |->
               IF s = r
               THEN [req[r] EXCEPT !.pc = "done",
                                   !.status = 200,
                                   !.resp = <<[name |-> req[r].person.name,
                                               points |-> points]>>]
               ELSE IF /\ req[s].pc = "commit"
                       /\ req[s].endpoint = "update_points"
                       /\ req[s].person.id = id
                    THEN [req[s] EXCEPT !.since = @ \cup {r}]
                    ELSE req[s]]

\* ------------------------------------------------- specifications ----
Next ==
    \E r \in Reqs :
        \/ Dashboard(r, Requests)
        \/ GetPersons(r, Requests)
        \/ AddPerson(r, Requests)
        \/ AddPersonCommit(r)
        \/ AddPersonRollback(r)
        \/ UpdatePoints(r, Requests)
        \/ UpdatePointsSelect(r)
        \/ UpdatePointsCommit(r)

Spec == Init /\ [][Next]_vars

NextAuth ==
    \E r \in Reqs :
        \/ Dashboard(r, Credentials)
        \/ GetPersons(r, Credentials)
        \/ AddPerson(r, Credentials)
        \/ AddPersonCommit(r)
        \/ AddPersonRollback(r)
        \/ UpdatePoints(r, Credentials)
        \/ UpdatePointsSelect(r)
        \/ UpdatePointsCommit(r)

SpecAuth == Init /\ [][NextAuth]_vars

\* ----------------------------------------------------- step shapes ----
\* The step in which context r takes a new request (and, for the 401, for
\* the 403 and for the two GET endpoints, answers it).
Arrives(r) == Free(r) /\ req'[r] # req[r]

\* The step in which context r leaves the program position pc.
Leaves(r, pc) == req[r].pc = pc /\ req'[r].pc # pc

RowsNamed(name) == {i \in 1..Len(persons) : persons[i].name = name}

CredentialStore == {<<u, USERS[u].password>> : u \in DOMAIN USERS}

\* ------------------------------------------------------------ claims ----

\* C1: on every endpoint and for every presented (username, password), the
\* request is authenticated, with the role stored for that username, exactly
\* when the pair is in the credential store; any other pair is answered 401
\* with the WWW-Authenticate: Basic challenge and leaves the table as it is.
C1_Authentication ==
    [][\A r \in Reqs : Arrives(r) =>
         LET q == req'[r]
         IN /\ (q.status # 401) <=> (<<q.username, q.password>> \in CredentialStore)
            /\ q.status # 401 => q.role = USERS[q.username].role
            /\ q.status = 401 =>
                 /\ q.challenge = "Basic"
                 /\ q.pc = "done"
                 /\ q.role = "none"
                 /\ persons' = persons]_vars

\* a known user with a wrong password was refused on a mutating endpoint
\* while the table held a row, and a viewer was served
C1_Witness ==
    /\ Len(persons) > 0
    /\ \E r \in Reqs :
         /\ req[r].status = 401
         /\ req[r].endpoint = "update_points"
         /\ req[r].username = "admin"
    /\ \E r \in Reqs :
         /\ req[r].status = 200
         /\ req[r].role = "viewer"
         /\ req[r].username = "sarah"

\* C2: an add_person or update_points request of a viewer is answered 403
\* whatever its body holds and leaves the table as it is; every row, and
\* every points value, was written by a request of an admin.
C2_ViewerForbidden ==
    [][/\ \A r \in Reqs :
            (/\ Arrives(r)
             /\ req'[r].role = "viewer"
             /\ req'[r].endpoint \in {"add_person", "update_points"})
            => /\ req'[r].status = 403
               /\ req'[r].pc = "done"
               /\ persons' = persons
       /\ \A i \in 1..Len(persons') :
            /\ persons'[i].crole = "admin"
            /\ persons'[i].prole = "admin"]_vars

\* a viewer's update of an existing name and a viewer's add of a new name
\* were both refused
C2_Witness ==
    /\ \E r \in Reqs :
         /\ req[r].role = "viewer"
         /\ req[r].endpoint = "update_points"
         /\ req[r].status = 403
         /\ RowsNamed(req[r].name) # {}
         /\ persons[CHOOSE i \in RowsNamed(req[r].name) : TRUE].points
               # req[r].points
    /\ \E r \in Reqs :
         /\ req[r].role = "viewer"
         /\ req[r].endpoint = "add_person"
         /\ req[r].status = 403
         /\ req[r].name \in Names
         /\ RowsNamed(req[r].name) = {}

\* C3: no two rows of the table have the same name.
C3_UniqueNames ==
    \A i, j \in 1..Len(persons) : i # j => persons[i].name # persons[j].name

\* C4: two add_person requests of an admin for the same name, both received
\* while no row had that name: one of them inserts the row and returns it,
\* the other one fails on the unique constraint, rolls back and returns 400
\* (both return 400 only when a third request for the name won), a rollback
\* is followed by the 400 and by no second attempt, and one row has the name.
C4_ConcurrentAdd ==
    /\ [](\A r1, r2 \in Reqs :
            (/\ r1 # r2
             /\ req[r1].endpoint = "add_person" /\ req[r2].endpoint = "add_person"
             /\ req[r1].pc = "done" /\ req[r2].pc = "done"
             /\ req[r1].absent /\ req[r2].absent
             /\ req[r1].name # None
             /\ req[r1].name = req[r2].name)
            => /\ Cardinality(RowsNamed(req[r1].name)) = 1
               /\ \/ /\ req[r1].status = 200 /\ req[r1].beaten = 0
                     /\ req[r1].resp = <<[name |-> req[r1].name, points |-> 0]>>
                     /\ req[r2].status = 400 /\ req[r2].beaten = r1
                  \/ /\ req[r2].status = 200 /\ req[r2].beaten = 0
                     /\ req[r2].resp = <<[name |-> req[r2].name, points |-> 0]>>
                     /\ req[r1].status = 400 /\ req[r1].beaten = r2
                  \/ /\ req[r1].status = 400 /\ req[r2].status = 400
                     /\ req[r1].beaten \notin {0, r1, r2}
                     /\ req[r2].beaten = req[r1].beaten)
    /\ [][\A r \in Reqs : Leaves(r, "rollback") =>
            /\ req'[r].pc = "done"
            /\ req'[r].status = 400
            /\ persons' = persons]_vars

\* two such requests have both been answered
C4_Witness ==
    \E r1, r2 \in Reqs :
        /\ r1 # r2
        /\ req[r1].endpoint = "add_person" /\ req[r2].endpoint = "add_person"
        /\ req[r1].absent /\ req[r2].absent
        /\ req[r1].name \in Names
        /\ req[r1].name = req[r2].name
        /\ req[r1].status = 200
        /\ req[r2].status = 400
        /\ req[r2].beaten = r1

\* C5: an admin's add_person of a name no row has appends one row with that
\* name and 0 points, changes no other row and returns {name, 0}; a
\* get_persons shows every stored row with its stored points, and the points
\* of a stored row change only when an update_points for that row commits:
\* until then every get_persons shows {name, 0}.
C5_AddPerson ==
    [][/\ \A r \in Reqs :
            (Leaves(r, "commit") /\ req[r].endpoint = "add_person") =>
               /\ RowsNamed(req[r].name) = {} => req'[r].pc = "done"
               /\ req'[r].pc = "done" =>
                    /\ Len(persons') = Len(persons) + 1
                    /\ \A i \in 1..Len(persons) : persons'[i] = persons[i]
                    /\ Json(persons'[Len(persons')]) =
                          [name |-> req[r].name, points |-> 0]
                    /\ req'[r].status = 200
                    /\ req'[r].resp = <<[name |-> req[r].name, points |-> 0]>>
       /\ \A r \in Reqs :
            (Arrives(r) /\ req'[r].endpoint = "get_persons"
                        /\ req'[r].status # 401) =>
               \A i \in 1..Len(persons) :
                   \E k \in 1..Len(req'[r].resp) :
                       req'[r].resp[k] = Json(persons[i])
       /\ \A i \in 1..Len(persons) :
            persons'[i].points # persons[i].points =>
               \E r \in Reqs :
                   /\ Leaves(r, "commit")
                   /\ req[r].endpoint = "update_points"
                   /\ req[r].person.id = i]_vars

\* a person was added and a later get_persons of a viewer shows it with 0
\* points beside another person
C5_Witness ==
    \E r1, r2 \in Reqs :
        /\ req[r1].endpoint = "add_person"
        /\ req[r1].status = 200
        /\ req[r1].name \in Names
        /\ req[r2].endpoint = "get_persons"
        /\ req[r2].role = "viewer"
        /\ Len(req[r2].resp) = 2
        /\ \E k \in 1..2 :
             req[r2].resp[k] = [name |-> req[r1].name, points |-> 0]

\* C6: the commit of an admin's update_points for an existing name leaves the
\* supplied points in that person's row, returns {name, points} and changes
\* nothing else.
C6_UpdateOverwrites ==
    [][\A r \in Reqs :
         (/\ Leaves(r, "commit") /\ req[r].endpoint = "update_points"
          /\ req[r].name \in Names) =>
            LET id == req[r].person.id
            IN /\ Len(persons') = Len(persons)
               /\ \A j \in 1..Len(persons) : j # id => persons'[j] = persons[j]
               /\ persons'[id].name = persons[id].name
               /\ persons'[id].points = req[r].points
               /\ req'[r].status = 200
               /\ req'[r].resp = <<[name |-> persons[id].name,
                                    points |-> req[r].points]>>]_vars

\* C7: an admin's update_points whose name no row has is answered 404 and
\* leaves the table as it is.
C7_UpdateNotFound ==
    [][\A r \in Reqs :
         (Leaves(r, "select") /\ RowsNamed(req[r].name) = {}) =>
            /\ req'[r].pc = "done"
            /\ req'[r].status = 404
            /\ persons' = persons]_vars

\* an update for a name no row has was answered 404 while other rows exist
C7_Witness ==
    \E r \in Reqs :
        /\ req[r].endpoint = "update_points"
        /\ req[r].status = 404
        /\ req[r].name \in Names
        /\ Len(persons) > 0

\* C8: get_persons of any authenticated user returns every stored row once,
\* as {name, points}, in non-decreasing order of points, and leaves the table
\* as it is.
C8_GetPersons ==
    [][\A r \in Reqs :
         (Arrives(r) /\ req'[r].endpoint = "get_persons"
                     /\ req'[r].status # 401) =>
            LET resp == req'[r].resp
                n == Len(persons)
            IN /\ req'[r].status = 200
               /\ Len(resp) = n
               /\ \E f \in [1..n -> 1..n] :
                    /\ \A i, j \in 1..n : i # j => f[i] # f[j]
                    /\ \A k \in 1..n : resp[k] = Json(persons[f[k]])
               /\ \A k \in 1..n, l \in 1..n :
                    k < l => resp[k].points <= resp[l].points
               /\ persons' = persons]_vars

\* a viewer received two persons in an order that is not the order in which
\* they were inserted
C8_Witness ==
    \E r \in Reqs :
        /\ req[r].endpoint = "get_persons"
        /\ req[r].role = "viewer"
        /\ req[r].status = 200
        /\ Len(req[r].resp) = 2
        /\ Len(persons) = 2
        /\ req[r].resp[1].points < req[r].resp[2].points
        /\ req[r].resp[1] = Json(persons[2])

\* C9: of two update_points requests of an admin for the same person that
\* ran concurrently with different values, both return 200 and the one that
\* commits last leaves its value in the row.
C9_LastCommitWins ==
    [][\A r, r2 \in Reqs :
         (/\ Leaves(r, "commit") /\ req[r].endpoint = "update_points"
          /\ req[r].name \in Names
          /\ r2 \in req[r].since
          /\ req[r2].endpoint = "update_points"
          /\ req[r2].pc = "done"
          /\ req[r2].person.id = req[r].person.id
          /\ req[r2].points # req[r].points)
         => /\ req[r2].status = 200
            /\ req'[r].status = 200
            /\ persons'[req[r].person.id].points = req[r].points]_vars

\* C10: every row has a name.
C10_NameNotNull ==
    \A i \in 1..Len(persons) : persons[i].name # None

====
